---- MODULE Spec2Model ----
(***************************************************************************)
(* Reconciliation engine of app.py: identity matching and merging of raw  *)
(* extraction records (merge_records / _merge_into) and the review-apply   *)
(* step (_apply_review_changes) on the session's record list.              *)
(*                                                                         *)
(* Strings are sequences of one-character strings, so that str.strip(),    *)
(* len() and the f-string keys are computed, not assumed.  A dict with     *)
(* optional keys is a record that carries the set `keys` of the optional   *)
(* keys it holds; a key that is not in `keys` holds a placeholder that no  *)
(* reader looks at.                                                        *)
(***************************************************************************)
EXTENDS Integers, Sequences, FiniteSets, TLC

VARIABLES
    \* merge_records(data_list)
    data_list,        \* the argument: raw records in upload order
    pc,               \* position in merge_records
    idx,              \* loop index of the running for-loop
    groups,           \* OrderedDict key -> merged record, as a sequence of [key, rec]
    unmatched,        \* records without a _match_key
    name_to_group,    \* dict name key -> group key, as a sequence of [nk, gkey]
    still_unmatched,  \* records that matched no group by name either
    \* _merge_into(existing, data) on its own
    existing,         \* the merged record being merged into
    data,             \* the raw record last merged into it
    merges,           \* number of _merge_into calls made on `existing`
    \* st.session_state
    extracted_data,   \* session_state["extracted_data"]
    all_images,       \* keys of session_state["all_images"]
    phase,            \* "filled" once the cards of this run are filled in
    review_values,    \* session_state["review_{item}_{col}"], per item
    confirmed_flags,  \* session_state["confirmed_{item}"], per item
    delete_checks,    \* item indices whose delete box is ticked
    applied,          \* TRUE once _apply_review_changes ran
    stale_request,    \* TRUE if its last run was given an index past the items
    raised,           \* TRUE if a call raised (IndexError of list.pop)
    \* calc_confidence(data)
    scored,           \* which record was scored last: "none", "data", "existing"
    score,            \* the tuple (pct, label, low_fields) it returned
    \* render_extraction_section(uploaded_files)
    uploaded_files,   \* the uploads, in upload order
    next_task,        \* position in api_tasks of the next task a worker takes
    running,          \* api_tasks positions whose _call_api is running
    done_futures,     \* finished futures that as_completed has not yielded yet
    api_results,      \* dict fname -> extracted
    results,          \* the list handed to merge_records
    xpc               \* position in render_extraction_section

vars == <<data_list, pc, idx, groups, unmatched, name_to_group, still_unmatched,
          existing, data, merges,
          extracted_data, all_images, review_values, confirmed_flags,
          delete_checks, applied, raised, phase, stale_request,
          scored, score,
          uploaded_files, next_task, running, done_futures, api_results, results, xpc>>

mergeVars == <<data_list, pc, idx, groups, unmatched, name_to_group, still_unmatched>>
mergeIntoVars == <<existing, data, merges>>
sessionVars == <<extracted_data, all_images>>
reviewVars == <<review_values, confirmed_flags, delete_checks, applied, raised,
                phase, stale_request>>
scoreVars == <<scored, score>>
extractVars == <<uploaded_files, next_task, running, done_futures, api_results,
                 results, xpc>>

----------------------------------------------------------------------------
(* Bounds *)

MaxFiles == 3          \* uploaded files in one merge_records call
MaxMerges == 2         \* _merge_into calls on one record (stand-alone check)
MaxReviewFiles == 3    \* uploaded files behind a reviewed record list
MaxScoreMerges == 1    \* _merge_into calls on a record before it is scored
MaxUploads == 4        \* uploaded files in one extraction run

----------------------------------------------------------------------------
(* Schema and strings *)

\* Four of the 21 columns: the three identity columns, and the certificate
\* number; birth is the one that is not required.
CSV_COLUMNS == <<"sei", "mei", "birth", "cert">>
REQUIRED_FIELDS == <<"sei", "mei", "cert">>

Cols == {CSV_COLUMNS[i] : i \in 1..Len(CSV_COLUMNS)}

Absent == "absent"                 \* a key the confidence dict does not hold
AllAbsent == [c \in Cols |-> Absent]   \* the empty dict {}
NoneKey == <<>>                    \* Python's None for a key (no key is empty)

IsSpace(ch) == ch = " "

RECURSIVE LStrip(_)
LStrip(s) == IF s # <<>> /\ IsSpace(Head(s)) THEN LStrip(Tail(s)) ELSE s

RECURSIVE RStrip(_)
RStrip(s) ==
    IF s # <<>> /\ IsSpace(s[Len(s)]) THEN RStrip(SubSeq(s, 1, Len(s) - 1)) ELSE s

\* str(x).strip()
Strip(s) == RStrip(LStrip(s))

\* dict.get(col, default) on a confidence dict
ConfGet(conf, col, default) == IF conf[col] = Absent THEN default ELSE conf[col]

\* rec.get("confidence", {})
ConfOf(rec) == IF "confidence" \in rec.keys THEN rec.confidence ELSE AllAbsent

\* rec.get("_source_files", [])
SourceFilesOf(rec) == IF "_source_files" \in rec.keys THEN rec._source_files ELSE <<>>

\* rec.get("_source_types", [])
SourceTypesOf(rec) == IF "_source_types" \in rec.keys THEN rec._source_types ELSE <<>>

\* rec.get("_source_file", "")
SourceFileOf(rec) == IF "_source_file" \in rec.keys THEN rec._source_file ELSE ""

\* rec.get("_doc_type", "fumei")
DocTypeOf(rec) == IF "_doc_type" \in rec.keys THEN rec._doc_type ELSE "fumei"

SeqToSet(s) == {s[i] : i \in 1..Len(s)}

----------------------------------------------------------------------------
(* Identity keys *)

CertPrefix == <<"c", "e", "r", "t", ":">>
NamePrefix == <<"n", "a", "m", "e", ":">>
Bar == <<"|">>

\* Faulty variant: the certificate number is not looked at.
_match_key_IgnoresCert(row) ==
    LET sei == Strip(row.f["sei"])
        mei == Strip(row.f["mei"])
        birth == Strip(row.f["birth"])
    IN  IF sei # <<>> /\ mei # <<>> /\ birth # <<>>
        THEN NamePrefix \o sei \o Bar \o mei \o Bar \o birth
        ELSE NoneKey

_match_key(row) ==
    LET cert == Strip(row.f["cert"])
        sei == Strip(row.f["sei"])
        mei == Strip(row.f["mei"])
        birth == Strip(row.f["birth"])
    IN  IF cert # <<>> THEN CertPrefix \o cert
        ELSE IF sei # <<>> /\ mei # <<>> /\ birth # <<>>
             THEN NamePrefix \o sei \o Bar \o mei \o Bar \o birth
             ELSE NoneKey

_name_key(row) ==
    LET sei == Strip(row.f["sei"])
        mei == Strip(row.f["mei"])
    IN  IF sei # <<>> /\ mei # <<>> THEN sei \o Bar \o mei ELSE NoneKey

----------------------------------------------------------------------------
(* _merge_into *)

\* Faulty variant: a longer incoming value is adopted whatever the labels.
MergeField_LongerAlwaysWins(old_raw, old_entry, new_raw, new_conf, existing_conf, col) ==
    LET new_val == Strip(new_raw)
        old_val == Strip(old_raw)
        new_c == ConfGet(new_conf, col, "low")
        old_c == ConfGet(existing_conf, col, "low")
        keep == [val |-> old_raw, conf |-> old_entry]
    IN  IF old_val = <<>> /\ new_val # <<>>
        THEN [val |-> new_val, conf |-> new_c]
        ELSE IF old_val # <<>> /\ new_val # <<>>
             THEN IF new_c = "high" /\ old_c = "low"
                  THEN [val |-> new_val, conf |-> "high"]
                  ELSE IF Len(new_val) > Len(old_val)
                       THEN [val |-> new_val, conf |-> old_entry]
                       ELSE keep
             ELSE keep

\* One iteration of the column loop: the value and confidence entry of col
\* after merging data into existing.
MergeField(old_raw, old_entry, new_raw, new_conf, existing_conf, col) ==
    LET new_val == Strip(new_raw)
        old_val == Strip(old_raw)
        new_c == ConfGet(new_conf, col, "low")
        old_c == ConfGet(existing_conf, col, "low")
        keep == [val |-> old_raw, conf |-> old_entry]
    IN  IF old_val = <<>> /\ new_val # <<>>
        THEN [val |-> new_val, conf |-> new_c]
        ELSE IF old_val # <<>> /\ new_val # <<>>
             THEN IF new_c = "high" /\ old_c = "low"
                  THEN [val |-> new_val, conf |-> "high"]
                  ELSE IF Len(new_val) > Len(old_val) /\ new_c = old_c
                       THEN [val |-> new_val, conf |-> old_entry]
                       ELSE keep
             ELSE keep

\* Faulty variant: the source file is appended without the membership test.
MergeSources_AlwaysAppend(ex, d) ==
    [files |-> Append(SourceFilesOf(ex), SourceFileOf(d)),
     types |-> Append(SourceTypesOf(ex), DocTypeOf(d)),
     keys |-> {"_source_files", "_source_types"}]

\* Faulty variant: the doc type of an appended file is not recorded.
MergeSources_TypeNotAppended(ex, d) ==
    LET src == SourceFileOf(d)
    IN  IF src # "" /\ src \notin SeqToSet(SourceFilesOf(ex))
        THEN [files |-> Append(SourceFilesOf(ex), src),
              types |-> SourceTypesOf(ex),
              keys |-> {"_source_files", "_source_types"}]
        ELSE [files |-> ex._source_files, types |-> ex._source_types, keys |-> {}]

\* The provenance lists after the append of lines 440-443.
MergeSources(ex, d) ==
    LET src == SourceFileOf(d)
    IN  IF src # "" /\ src \notin SeqToSet(SourceFilesOf(ex))
        THEN [files |-> Append(SourceFilesOf(ex), src),
              types |-> Append(SourceTypesOf(ex), DocTypeOf(d)),
              keys |-> {"_source_files", "_source_types"}]
        ELSE [files |-> ex._source_files, types |-> ex._source_types, keys |-> {}]

_merge_into(ex, d) ==
    LET existing_conf == ConfOf(ex)
        new_conf == ConfOf(d)
        m == [c \in Cols |->
                MergeField(ex.f[c], existing_conf[c], d.f[c], new_conf,
                           existing_conf, c)]
        s == MergeSources(ex, d)
    IN  [ex EXCEPT !.f = [c \in Cols |-> m[c].val],
                   !.confidence = [c \in Cols |-> m[c].conf],
                   !._source_files = s.files,
                   !._source_types = s.types,
                   !.keys = ex.keys \cup {"confidence"} \cup s.keys]

\* Lines 464-467: the merged record a new key is seeded with.
SeedGroup(d) ==
    [f |-> d.f,
     confidence |-> ConfOf(d),
     _source_file |-> "",
     _doc_type |-> "",
     _source_files |-> <<SourceFileOf(d)>>,
     _source_types |-> <<DocTypeOf(d)>>,
     _confirmed |-> FALSE,
     keys |-> {"confidence", "_source_files", "_source_types"}]

----------------------------------------------------------------------------
(* merge_records *)

\* `key in groups`: the position of key in the OrderedDict, 0 if it is not in.
GroupIndex(gs, key) ==
    IF \E i \in 1..Len(gs) : gs[i].key = key
    THEN CHOOSE i \in 1..Len(gs) : gs[i].key = key
    ELSE 0

DictHas(d, k) == \E i \in 1..Len(d) : d[i].nk = k

DictGet(d, k) == d[CHOOSE i \in 1..Len(d) : d[i].nk = k].gkey

\* d[k] = v: a new key is appended, a known key keeps its place
DictPut(d, k, v) ==
    IF DictHas(d, k)
    THEN [d EXCEPT ![CHOOSE i \in 1..Len(d) : d[i].nk = k].gkey = v]
    ELSE Append(d, [nk |-> k, gkey |-> v])

\* Lines 458-470: the body of the first loop for one record.
Stage1Body(gs, um, d) ==
    LET key == _match_key(d)
        i == GroupIndex(gs, key)
    IN  IF key = NoneKey
        THEN [groups |-> gs, unmatched |-> Append(um, d)]
        ELSE IF i = 0
             THEN [groups |-> Append(gs, [key |-> key, rec |-> SeedGroup(d)]),
                   unmatched |-> um]
             ELSE [groups |-> [gs EXCEPT ![i].rec = _merge_into(gs[i].rec, d)],
                   unmatched |-> um]

\* Faulty variant: a name that is already in the index keeps its group.
RECURSIVE NameIndex_FirstGroupWins(_, _)
NameIndex_FirstGroupWins(gs, k) ==
    IF k = 0 THEN <<>>
    ELSE LET before == NameIndex_FirstGroupWins(gs, k - 1)
             nk == _name_key(gs[k].rec)
         IN  IF nk # NoneKey /\ ~DictHas(before, nk)
             THEN DictPut(before, nk, gs[k].key)
             ELSE before

\* Lines 474-478: the reverse index over the first k groups.
RECURSIVE NameIndex(_, _)
NameIndex(gs, k) ==
    IF k = 0 THEN <<>>
    ELSE LET before == NameIndex(gs, k - 1)
             nk == _name_key(gs[k].rec)
         IN  IF nk # NoneKey THEN DictPut(before, nk, gs[k].key) ELSE before

\* Faulty variant: a record that matches no group is merged into an earlier
\* unmatched record of its name.
Stage2Body_MergesUnmatched(gs, n2g, su, d) ==
    LET nk == _name_key(d)
    IN  IF nk # NoneKey /\ DictHas(n2g, nk)
        THEN LET i == GroupIndex(gs, DictGet(n2g, nk))
             IN  [groups |-> [gs EXCEPT ![i].rec = _merge_into(gs[i].rec, d)],
                  still_unmatched |-> su]
        ELSE IF nk # NoneKey /\ \E i \in 1..Len(su) : _name_key(su[i]) = nk
             THEN LET i == CHOOSE i \in 1..Len(su) : _name_key(su[i]) = nk
                  IN  [groups |-> gs,
                       still_unmatched |-> [su EXCEPT ![i] = _merge_into(su[i], d)]]
             ELSE [groups |-> gs, still_unmatched |-> Append(su, d)]

\* Lines 482-486: the body of the second loop for one record.
Stage2Body(gs, n2g, su, d) ==
    LET nk == _name_key(d)
    IN  IF nk # NoneKey /\ DictHas(n2g, nk)
        THEN LET i == GroupIndex(gs, DictGet(n2g, nk))
             IN  [groups |-> [gs EXCEPT ![i].rec = _merge_into(gs[i].rec, d)],
                  still_unmatched |-> su]
        ELSE [groups |-> gs, still_unmatched |-> Append(su, d)]

RECURSIVE GroupValues(_)
GroupValues(gs) == IF gs = <<>> THEN <<>> ELSE <<Head(gs).rec>> \o GroupValues(Tail(gs))

\* Faulty variant: the unmatched records are returned before the groups.
MergeOutput_UnmatchedFirst(gs, su) == su \o GroupValues(gs)

\* Line 488
MergeOutput(gs, su) == GroupValues(gs) \o su

RECURSIVE Stage1Loop(_, _)
Stage1Loop(list, k) ==
    IF k = 0 THEN [groups |-> <<>>, unmatched |-> <<>>]
    ELSE LET before == Stage1Loop(list, k - 1)
         IN  Stage1Body(before.groups, before.unmatched, list[k])

RECURSIVE Stage2Loop(_, _, _, _)
Stage2Loop(gs, n2g, um, k) ==
    IF k = 0 THEN [groups |-> gs, still_unmatched |-> <<>>]
    ELSE LET before == Stage2Loop(gs, n2g, um, k - 1)
         IN  Stage2Body(before.groups, n2g, before.still_unmatched, um[k])

\* merge_records as a function of its argument
merge_records(list) ==
    LET s1 == Stage1Loop(list, Len(list))
        n2g == NameIndex(s1.groups, Len(s1.groups))
        s2 == Stage2Loop(s1.groups, n2g, s1.unmatched, Len(s1.unmatched))
    IN  MergeOutput(s2.groups, s2.still_unmatched)

----------------------------------------------------------------------------
(* Raw records handed to merge_records by render_extraction_section *)

FileNames == <<"f1", "f2", "f3", "f4", "f5", "f6">>

AllHigh == [c \in Cols |-> "high"]
AllLow == [c \in Cols |-> "low"]

Fields(sei, mei, birth, cert) ==
    [c \in Cols |-> CASE c = "sei" -> sei [] c = "mei" -> mei
                      [] c = "birth" -> birth [] c = "cert" -> cert]

\* Lines 740-743: an extraction result; hasConf is whether the model's JSON
\* held a "confidence" object.
Extracted(f, conf, hasConf, doc) ==
    [f |-> f,
     confidence |-> IF hasConf THEN conf ELSE AllAbsent,
     _source_file |-> "",
     _doc_type |-> doc,
     _source_files |-> <<>>,
     _source_types |-> <<>>,
     _confirmed |-> FALSE,
     keys |-> (IF hasConf THEN {"confidence"} ELSE {}) \cup {"_source_file", "_doc_type"}]

\* Lines 747-750: the record of a file whose extraction failed.
EmptyRecord == Extracted([c \in Cols |-> <<>>], AllAbsent, FALSE, "fumei")

Y == <<"Y">>
Z == <<"Z">>
H == <<"H">>
E == <<>>

\* Extraction results the merge pass is run on.
RawPool ==
    { Extracted(Fields(Y, H, <<"d">>, <<"1">>), AllHigh, TRUE, "jukyusha"),
      Extracted(Fields(E, E, <<"d", "d">>, <<" ", "1">>), AllLow, TRUE, "jukyusha"),
      Extracted(Fields(Y, H, E, <<"2">>), AllHigh, TRUE, "jukyusha"),
      Extracted(Fields(Y, H, <<"d">>, E), AllHigh, TRUE, "keiyaku"),
      Extracted(Fields(<<"Y", " ">>, H, E, E), AllLow, TRUE, "keiyaku"),
      Extracted(Fields(Y, E, <<"d">>, E), [AllHigh EXCEPT !["birth"] = Absent], TRUE, "keiyaku"),
      Extracted(Fields(Z, H, E, E), AllAbsent, FALSE, "keiyaku"),
      Extracted(Fields(Z, H, <<"e">>, <<"1">>), [AllLow EXCEPT !["sei"] = "high"], TRUE, "fumei"),
      EmptyRecord }

\* Line 741: the record of the file at position i carries that file's name.
RECURSIVE Named(_, _)
Named(list, k) ==
    IF k = 0 THEN <<>>
    ELSE Append(Named(list, k - 1), [list[k] EXCEPT !._source_file = FileNames[k]])

RECURSIVE Lists(_, _)
Lists(pool, n) ==
    IF n = 0 THEN {<<>>}
    ELSE LET shorter == Lists(pool, n - 1)
         IN  shorter \cup {Append(l, r) : l \in {x \in shorter : Len(x) = n - 1}, r \in pool}

InputLists(pool, n) == {Named(l, Len(l)) : l \in Lists(pool, n)}

\* Lines 736-737: every prepared file gets an entry in all_images.
ImagesOf(list) == {SourceFileOf(list[i]) : i \in 1..Len(list)}

----------------------------------------------------------------------------
(* The merge pass, one loop iteration per step *)

NoRecord == EmptyRecord

InitMergeInto == existing = SeedGroup(NoRecord) /\ data = NoRecord /\ merges = 0

InitReview ==
    /\ phase = "idle"
    /\ stale_request = FALSE
    /\ review_values = <<>>
    /\ confirmed_flags = <<>>
    /\ delete_checks = {}
    /\ applied = FALSE
    /\ raised = FALSE

NoScore == [pct |-> 0, label |-> "", low_fields |-> <<>>]

InitScoreIdle == scored = "none" /\ score = NoScore

NoResults == [n \in {} |-> 0]

InitExtractIdle ==
    /\ uploaded_files = <<>>
    /\ next_task = 1
    /\ running = {}
    /\ done_futures = {}
    /\ api_results = NoResults
    /\ results = <<>>
    /\ xpc = "idle"

Init ==
    /\ data_list \in InputLists(RawPool, MaxFiles)
    /\ pc = "stage1"
    /\ idx = 1
    /\ groups = <<>>
    /\ unmatched = <<>>
    /\ name_to_group = <<>>
    /\ still_unmatched = <<>>
    /\ extracted_data = <<>>
    /\ all_images = {}
    /\ InitMergeInto
    /\ InitReview
    /\ InitScoreIdle
    /\ InitExtractIdle

Stage1Step ==
    /\ pc = "stage1"
    /\ idx <= Len(data_list)
    /\ LET r == Stage1Body(groups, unmatched, data_list[idx])
       IN  groups' = r.groups /\ unmatched' = r.unmatched
    /\ idx' = idx + 1
    /\ UNCHANGED <<data_list, pc, name_to_group, still_unmatched>>
    /\ UNCHANGED <<mergeIntoVars, sessionVars, reviewVars>>
    /\ UNCHANGED <<scoreVars, extractVars>>

BuildNameIndex ==
    /\ pc = "stage1"
    /\ idx > Len(data_list)
    /\ name_to_group' = NameIndex(groups, Len(groups))
    /\ pc' = "stage2"
    /\ idx' = 1
    /\ UNCHANGED <<data_list, groups, unmatched, still_unmatched>>
    /\ UNCHANGED <<mergeIntoVars, sessionVars, reviewVars>>
    /\ UNCHANGED <<scoreVars, extractVars>>

Stage2Step ==
    /\ pc = "stage2"
    /\ idx <= Len(unmatched)
    /\ LET r == Stage2Body(groups, name_to_group, still_unmatched, unmatched[idx])
       IN  groups' = r.groups /\ still_unmatched' = r.still_unmatched
    /\ idx' = idx + 1
    /\ UNCHANGED <<data_list, pc, unmatched, name_to_group>>
    /\ UNCHANGED <<mergeIntoVars, sessionVars, reviewVars>>
    /\ UNCHANGED <<scoreVars, extractVars>>

\* Line 488 and lines 759-762: the result goes to the session.
Return ==
    /\ pc = "stage2"
    /\ idx > Len(unmatched)
    /\ extracted_data' = MergeOutput(groups, still_unmatched)
    /\ all_images' = ImagesOf(data_list)
    /\ pc' = "done"
    /\ UNCHANGED <<data_list, idx, groups, unmatched, name_to_group, still_unmatched>>
    /\ UNCHANGED <<mergeIntoVars, reviewVars>>
    /\ UNCHANGED <<scoreVars, extractVars>>

Next == Stage1Step \/ BuildNameIndex \/ Stage2Step \/ Return

Spec == Init /\ [][Next]_vars

\* The stepwise pass returns what merge_records computes.
StepwiseAgrees == pc = "done" => extracted_data = merge_records(data_list)

----------------------------------------------------------------------------
(* Claims about merge_records, under Spec *)

\* Positions of the output records whose _source_files list names file fn.
HoldersOf(fn) ==
    {j \in 1..Len(extracted_data) :
        /\ "_source_files" \in extracted_data[j].keys
        /\ fn \in SeqToSet(extracted_data[j]._source_files)}

\* C1: after merge_records, for input records with pairwise distinct
\* source files, the source file of every input record is in the
\* source_files list of exactly one output record.
C1_EverySourceInExactlyOneList ==
    pc = "done" =>
        \A i \in 1..Len(data_list) :
            Cardinality(HoldersOf(SourceFileOf(data_list[i]))) = 1

\* C2: every record left in still_unmatched is returned as a record that
\* has a one-element _source_files list holding its own source file and a
\* one-element _source_types list holding its doc type.
C2_UnmatchedIsPromoted ==
    pc = "done" =>
        \A i \in 1..Len(still_unmatched) :
            \E j \in 1..Len(extracted_data) :
                /\ extracted_data[j].f = still_unmatched[i].f
                /\ "_source_files" \in extracted_data[j].keys
                /\ extracted_data[j]._source_files = <<SourceFileOf(still_unmatched[i])>>
                /\ "_source_types" \in extracted_data[j].keys
                /\ extracted_data[j]._source_types = <<DocTypeOf(still_unmatched[i])>>

\* Input positions, ascending, of the records that are the first with their
\* primary key.
RECURSIVE FirstOccurrences(_, _)
FirstOccurrences(list, k) ==
    IF k = 0 THEN <<>>
    ELSE LET before == FirstOccurrences(list, k - 1)
             key == _match_key(list[k])
         IN  IF key # NoneKey /\ \A j \in 1..(k - 1) : _match_key(list[j]) # key
             THEN Append(before, k)
             ELSE before

InStillUnmatched(d) == d \in SeqToSet(still_unmatched)

\* C3: the output is the groups in the order in which their primary key
\* first occurred in the input (the group of a key starts with the source
\* file of the first record with that key), then the still-unmatched
\* records in input order; it is not longer than the input.
C3_OutputOrder ==
    pc = "done" =>
        LET first == FirstOccurrences(data_list, Len(data_list))
            n == Len(first)
        IN  /\ Len(extracted_data) = n + Len(still_unmatched)
            /\ \A k \in 1..n :
                  /\ "_source_files" \in extracted_data[k].keys
                  /\ Head(extracted_data[k]._source_files) = SourceFileOf(data_list[first[k]])
            /\ SubSeq(extracted_data, n + 1, Len(extracted_data))
                 = SelectSeq(data_list, InStillUnmatched)
            /\ Len(extracted_data) <= Len(data_list)

\* C3 witness: a pass that returned two groups and one unmatched record,
\* where the unmatched record was uploaded first and the group that comes
\* second took in a later record.
C3_Witness ==
    /\ pc = "done"
    /\ Len(groups) = 2
    /\ Len(still_unmatched) = 1
    /\ still_unmatched[1] = data_list[1]
    /\ extracted_data[3] = data_list[1]
    /\ Len(data_list) = 3

----------------------------------------------------------------------------
(* _merge_into on its own: a seeded group takes in raw records one by one *)

InitMergeIdle ==
    /\ data_list = <<>>
    /\ pc = "idle"
    /\ idx = 1
    /\ groups = <<>>
    /\ unmatched = <<>>
    /\ name_to_group = <<>>
    /\ still_unmatched = <<>>

BirthValues == {E, <<"d">>, <<"d", "d">>, <<"e">>, <<" ">>, <<"e", " ">>}
Labels == {"high", "low", "mid", Absent}

\* Records of one person (certificate 1) that differ in the birth column,
\* its confidence entry and the file they come from.
MergeIntoPool ==
    { [Extracted(Fields(Y, H, birth, <<"1">>),
                 [AllHigh EXCEPT !["birth"] = label], TRUE, "jukyusha")
         EXCEPT !._source_file = fn] :
        birth \in BirthValues, label \in Labels, fn \in {"f1", "f2"} }
    \cup
    { [Extracted(Fields(Y, H, birth, <<"1">>), AllAbsent, FALSE, "keiyaku")
         EXCEPT !._source_file = fn] :
        birth \in BirthValues, fn \in {"f1", "f2"} }

InitMI ==
    /\ data \in MergeIntoPool
    /\ existing = SeedGroup(data)
    /\ merges = 0
    /\ InitMergeIdle
    /\ extracted_data = <<>>
    /\ all_images = {}
    /\ InitReview
    /\ InitScoreIdle
    /\ InitExtractIdle

MergeIntoCall ==
    /\ merges < MaxMerges
    /\ \E d \in MergeIntoPool :
          /\ existing' = _merge_into(existing, d)
          /\ data' = d
    /\ merges' = merges + 1
    /\ UNCHANGED <<mergeVars, sessionVars, reviewVars>>
    /\ UNCHANGED <<scoreVars, extractVars>>

NextMI == MergeIntoCall

SpecMergeInto == InitMI /\ [][NextMI]_vars

\* C4: _merge_into is idempotent: once a raw record has been merged into a
\* merged record, merging the same raw record again leaves the field
\* values, the confidence labels, _source_files and _source_types as they
\* are.
C4_MergeIntoIdempotent ==
    merges >= 1 => _merge_into(existing, data) = existing

\* C4 witness: the last merge adopted the incoming birth value and added
\* the incoming file to the provenance.
C4_Witness ==
    /\ merges >= 1
    /\ existing._source_files = <<"f1", "f2">>
    /\ SourceFileOf(data) = "f2"
    /\ data.f["birth"] = <<"d", "d">>
    /\ existing.f["birth"] = <<"d", "d">>
    /\ existing.confidence["birth"] = "low"

----------------------------------------------------------------------------
(* render_review_section and _apply_review_changes *)

\* Line 929: data.get("_source_files", [data.get("_source_file", "")])
ReviewSourceFiles(rec) ==
    IF "_source_files" \in rec.keys THEN rec._source_files ELSE <<SourceFileOf(rec)>>

\* Line 930: the files of the record that the image store holds
MatchingImgs(rec, imgs) == SelectSeq(ReviewSourceFiles(rec), LAMBDA fn : fn \in imgs)

\* Lines 927-933: review_items over the first k records; data_idx counts
\* from 0 as enumerate does.
RECURSIVE ReviewItemsUpTo(_, _, _)
ReviewItemsUpTo(dl, imgs, k) ==
    IF k = 0 THEN <<>>
    ELSE LET before == ReviewItemsUpTo(dl, imgs, k - 1)
             m == MatchingImgs(dl[k], imgs)
         IN  IF m # <<>> THEN Append(before, [data_idx |-> k - 1, imgs |-> m])
             ELSE before

ReviewItems(dl, imgs) == ReviewItemsUpTo(dl, imgs, Len(dl))

\* Line 885: the item indices for which delete_checks.get(item_idx) is true
Flagged(items, dc) == {i \in 0..(Len(items) - 1) : i \in dc}

\* Faulty variant: the ticked item indices are used as data indices, stale ones too.
DelIndices_FromDeleteChecks(items, dc) == dc

\* Line 886
DelIndices(items, dc) == {items[i + 1].data_idx : i \in Flagged(items, dc)}

\* Faulty variant: only the first image of a deleted record is dropped.
DeletedFiles_FirstImageOnly(items, dc) ==
    {Head(items[i + 1].imgs) : i \in Flagged(items, dc)}

\* Line 887
DeletedFiles(items, dc) == UNION {SeqToSet(items[i + 1].imgs) : i \in Flagged(items, dc)}

\* Faulty variant: a ticked confirmed box flips the stored flag.
ApplyItem_ToggleConfirmed(rec, values, is_confirmed) ==
    [rec EXCEPT !.f = values,
                !.confidence = IF "confidence" \in rec.keys THEN AllHigh ELSE @,
                !._confirmed = IF is_confirmed
                               THEN ~("_confirmed" \in rec.keys /\ rec._confirmed)
                               ELSE "_confirmed" \in rec.keys /\ rec._confirmed,
                !.keys = @ \cup {"_confirmed"}]

\* Faulty variant: a confirmation is never taken back.
ApplyItem_StickyConfirmed(rec, values, is_confirmed) ==
    [rec EXCEPT !.f = values,
                !.confidence = IF "confidence" \in rec.keys THEN AllHigh ELSE @,
                !._confirmed = is_confirmed \/ ("_confirmed" \in rec.keys /\ rec._confirmed),
                !.keys = @ \cup {"_confirmed"}]

\* Lines 889-897: the record of an item that is not ticked for deletion
ApplyItem(rec, values, is_confirmed) ==
    [rec EXCEPT !.f = values,
                !.confidence = IF "confidence" \in rec.keys THEN AllHigh ELSE @,
                !._confirmed = is_confirmed,
                !.keys = @ \cup {"_confirmed"}]

\* Lines 884-899: data_list after the loop over review_items
RECURSIVE EditedUpTo(_, _, _, _, _, _)
EditedUpTo(items, dc, dl, rv, cf, i) ==
    IF i = 0 THEN dl
    ELSE LET before == EditedUpTo(items, dc, dl, rv, cf, i - 1)
             k == items[i].data_idx + 1
         IN  IF (i - 1) \in dc THEN before
             ELSE [before EXCEPT ![k] = ApplyItem(before[k], rv[i], cf[i])]

SetMax(S) == CHOOSE x \in S : \A y \in S : y <= x

SetMin(S) == CHOOSE x \in S : \A y \in S : x <= y

\* Faulty variant: the indices are popped in ascending order.
RECURSIVE PopOrder_Ascending(_)
PopOrder_Ascending(S) ==
    IF S = {} THEN <<>> ELSE <<SetMin(S)>> \o PopOrder_Ascending(S \ {SetMin(S)})

\* Line 902: sorted(del_indices, reverse=True)
RECURSIVE PopOrder(_)
PopOrder(S) == IF S = {} THEN <<>> ELSE <<SetMax(S)>> \o PopOrder(S \ {SetMax(S)})

RemoveAt(list, k) == SubSeq(list, 1, k - 1) \o SubSeq(list, k + 1, Len(list))

\* Lines 902-903: list.pop(idx) for each index in turn; pop raises
\* IndexError for an index that is not in the list.
RECURSIVE PopAll(_, _)
PopAll(list, order) ==
    IF order = <<>> THEN [list |-> list, raised |-> FALSE]
    ELSE IF Head(order) >= Len(list) THEN [list |-> list, raised |-> TRUE]
         ELSE PopAll(RemoveAt(list, Head(order) + 1), Tail(order))

\* Lines 878-907
_apply_review_changes(items, dc, dl, rv, cf, imgs) ==
    LET del_indices == DelIndices(items, dc)
        edited == EditedUpTo(items, dc, dl, rv, cf, Len(items))
        popped == IF del_indices # {} THEN PopAll(edited, PopOrder(del_indices))
                  ELSE [list |-> edited, raised |-> FALSE]
    IN  [data |-> popped.list,
         images |-> IF del_indices # {} /\ ~popped.raised
                    THEN imgs \ DeletedFiles(items, dc)
                    ELSE imgs,
         raised |-> popped.raised]

\* What the reviewer can leave in the widgets of a record: its values as
\* shown (line 856), with the confirmed box unticked or ticked, or the birth
\* date retyped and the box ticked.
ItemChoices(rec) ==
    { [values |-> rec.f, confirmed |-> FALSE],
      [values |-> rec.f, confirmed |-> TRUE],
      [values |-> [rec.f EXCEPT !["birth"] = <<"e">>], confirmed |-> TRUE] }

\* The widget states of the first i items: per item the text inputs and the
\* confirmed box.  The widgets of a record ticked for deletion are not read
\* (line 885) and stay as rendered.
RECURSIVE ItemInputs(_, _, _, _)
ItemInputs(items, dl, dc, i) ==
    IF i = 0 THEN {[rv |-> <<>>, cf |-> <<>>]}
    ELSE LET rec == dl[items[i].data_idx + 1]
             choices == IF (i - 1) \in dc
                        THEN {[values |-> rec.f, confirmed |-> FALSE]}
                        ELSE ItemChoices(rec)
         IN  {[rv |-> Append(p.rv, c.values), cf |-> Append(p.cf, c.confirmed)] :
                 p \in ItemInputs(items, dl, dc, i - 1), c \in choices}

\* The ticked delete boxes may include one index past the items shown.
DeleteInputs(items) == SUBSET (0..Len(items))

\* Files the review is run on: a certificate (two of them merge into one
\* record) and a file whose extraction failed.
ReviewPool ==
    { Extracted(Fields(Y, H, <<"d">>, <<"1">>), AllLow, TRUE, "jukyusha"),
      EmptyRecord }

InitRV ==
    /\ \E l \in InputLists(ReviewPool, MaxReviewFiles) :
          /\ extracted_data = merge_records(l)
          /\ all_images = ImagesOf(l)
    /\ InitMergeIdle
    /\ InitMergeInto
    /\ InitReview
    /\ InitScoreIdle
    /\ InitExtractIdle

\* The reviewer fills in the cards that render_review_section shows
\* (lines 935-936: nothing is shown when there is no review item).
FillForm ==
    /\ phase = "idle"
    /\ ~raised
    /\ LET items == ReviewItems(extracted_data, all_images)
       IN  /\ items # <<>>
           /\ \E dc \in DeleteInputs(items) :
              \E in \in ItemInputs(items, extracted_data, dc, Len(items)) :
                 /\ review_values' = in.rv
                 /\ confirmed_flags' = in.cf
                 /\ delete_checks' = dc
    /\ phase' = "filled"
    /\ UNCHANGED <<extracted_data, all_images, applied, raised, stale_request>>
    /\ UNCHANGED <<mergeVars, mergeIntoVars>>
    /\ UNCHANGED <<scoreVars, extractVars>>

\* The apply button (lines 990-991): _apply_review_changes, then st.rerun()
\* renders the cards anew.
ApplyReview ==
    /\ phase = "filled"
    /\ \E items \in {ReviewItems(extracted_data, all_images)} :
       \E r \in {_apply_review_changes(items, delete_checks, extracted_data,
                                       review_values, confirmed_flags, all_images)} :
           /\ extracted_data' = r.data
           /\ all_images' = r.images
           /\ raised' = r.raised
           /\ stale_request' = (\E i \in delete_checks : i >= Len(items))
    /\ applied' = TRUE
    /\ phase' = "idle"
    /\ review_values' = <<>>
    /\ confirmed_flags' = <<>>
    /\ delete_checks' = {}
    /\ UNCHANGED <<mergeVars, mergeIntoVars>>
    /\ UNCHANGED <<scoreVars, extractVars>>

NextRV == FillForm \/ ApplyReview

SpecReview == InitRV /\ [][NextRV]_vars

----------------------------------------------------------------------------
(* Claims about _apply_review_changes, under SpecReview *)

\* The review items of the current record list
Items == ReviewItems(extracted_data, all_images)

\* A step of ApplyReview
IsApply == phase = "filled" /\ phase' = "idle"

\* Data indices of the records whose delete box is ticked
TickedRecords == {Items[i].data_idx : i \in {j \in 1..Len(Items) : (j - 1) \in delete_checks}}

\* Positions, ascending, of the first k records that are not in D
RECURSIVE KeptUpTo(_, _)
KeptUpTo(D, k) ==
    IF k = 0 THEN <<>>
    ELSE IF (k - 1) \in D THEN KeptUpTo(D, k - 1)
         ELSE Append(KeptUpTo(D, k - 1), k)

\* C5: with no delete box ticked, applying the same edited values and
\* confirmed flags a second time leaves the record list (field values,
\* confidence labels, confirmed flags, length and order) and the image
\* store as they are after the first call.
C5_ApplyTwiceIsApplyOnce ==
    (phase = "filled" /\ delete_checks = {}) =>
        LET r1 == _apply_review_changes(Items, delete_checks, extracted_data,
                                        review_values, confirmed_flags, all_images)
            r2 == _apply_review_changes(ReviewItems(r1.data, r1.images), delete_checks,
                                        r1.data, review_values, confirmed_flags, r1.images)
        IN  /\ r2.data = r1.data
            /\ r2.images = r1.images
            /\ ~r1.raised /\ ~r2.raised

\* C5 witness: the form is filled in for a second call with the inputs of
\* the first: every record already holds the values and the flag in its
\* widgets, one of them with the retyped birth date and confirmed.
C5_Witness ==
    /\ phase = "filled"
    /\ applied
    /\ delete_checks = {}
    /\ Len(Items) >= 2
    /\ \A i \in 1..Len(Items) :
          LET rec == extracted_data[Items[i].data_idx + 1]
          IN  /\ "_confirmed" \in rec.keys
              /\ review_values[i] = rec.f
              /\ confirmed_flags[i] = rec._confirmed
    /\ \E i \in 1..Len(Items) :
          /\ review_values[i]["birth"] = <<"e">>
          /\ confirmed_flags[i]
    /\ \E i \in 1..Len(Items) : ~confirmed_flags[i]

\* Position after the call of the record that was at data index k
PositionAfter(k) == k + 1 - Cardinality({d \in TickedRecords : d < k})

\* C6: after the call, every reviewed record that is not ticked for
\* deletion holds the supplied values, has a confidence mapping with every
\* column high, and has _confirmed equal to the supplied flag.
C6_ReviewedRecordTakesInputs ==
    [][IsApply =>
        \A i \in 1..Len(Items) :
            (i - 1) \notin delete_checks =>
                LET rec == extracted_data'[PositionAfter(Items[i].data_idx)]
                IN  /\ rec.f = review_values[i]
                    /\ "confidence" \in rec.keys
                    /\ \A c \in Cols : rec.confidence[c] = "high"
                    /\ "_confirmed" \in rec.keys
                    /\ rec._confirmed = confirmed_flags[i]]_vars

\* C7: the call removes exactly the records ticked for deletion: the list
\* gets shorter by their number and the records left are the unticked
\* ones, in their previous order.
C7_DeletesExactlyTheTicked ==
    [][IsApply =>
        LET kept == KeptUpTo(TickedRecords, Len(extracted_data))
        IN  /\ Len(extracted_data') = Len(extracted_data) - Cardinality(TickedRecords)
            /\ Len(extracted_data') = Len(kept)
            /\ \A j \in 1..Len(kept) :
                  ReviewSourceFiles(extracted_data'[j])
                    = ReviewSourceFiles(extracted_data[kept[j]])]_vars

\* C7 witness: of three records the middle one was deleted; the first and
\* the third are left, in that order.
C7_Witness ==
    /\ applied /\ phase = "idle" /\ ~raised
    /\ all_images = {"f1", "f3"}
    /\ Len(extracted_data) = 2
    /\ ReviewSourceFiles(extracted_data[1]) = <<"f1">>
    /\ ReviewSourceFiles(extracted_data[2]) = <<"f3">>

\* C8: after the call the image store holds none of the source files of a
\* record that the call deleted.
C8_DeletedFilesLeaveStore ==
    [][IsApply =>
        \A k \in TickedRecords :
            \A fn \in SeqToSet(ReviewSourceFiles(extracted_data[k + 1])) :
                fn \notin all_images']_vars

\* C8 witness: what came from the first two files was deleted and the store
\* is left with the third file, whose record is the only one in the list.
C8_Witness ==
    /\ applied /\ phase = "idle" /\ ~raised
    /\ all_images = {"f3"}
    /\ Len(extracted_data) = 1
    /\ ReviewSourceFiles(extracted_data[1]) = <<"f3">>

\* C9: a ticked index past the review items is ignored: the call does not
\* raise, and the list and the image store come out as they do without it.
C9_StaleIndexIsNoOp ==
    [][(IsApply /\ \E s \in delete_checks : s >= Len(Items)) =>
        LET valid == {s \in delete_checks : s < Len(Items)}
            r == _apply_review_changes(Items, valid, extracted_data,
                                       review_values, confirmed_flags, all_images)
        IN  /\ ~raised'
            /\ extracted_data' = r.data
            /\ all_images' = r.images
            /\ Len(extracted_data') = Len(extracted_data) - Cardinality(valid)]_vars

\* C9 witness: a call that was given a stale index returned, and all three
\* records and their images are still there.
C9_Witness ==
    /\ applied /\ phase = "idle" /\ stale_request /\ ~raised
    /\ Len(extracted_data) = 3
    /\ all_images = {"f1", "f2", "f3"}

\* Line 867: the review state of the record with source files id
Status(dl, id) ==
    IF \E k \in 1..Len(dl) : ReviewSourceFiles(dl[k]) = id
    THEN LET rec == dl[CHOOSE k \in 1..Len(dl) : ReviewSourceFiles(dl[k]) = id]
         IN  IF "_confirmed" \in rec.keys /\ rec._confirmed
             THEN "confirmed" ELSE "unconfirmed"
    ELSE "deleted"

RecordIds(dl) == {ReviewSourceFiles(dl[k]) : k \in 1..Len(dl)}

\* C10 as stated: a call moves a record from unconfirmed to confirmed or
\* from either to deleted, or leaves its review state; a confirmed record
\* does not return to unconfirmed and a deleted record does not come back.
C10_OnlyForwardTransitions ==
    [][IsApply =>
        \A id \in RecordIds(extracted_data) \cup RecordIds(extracted_data') :
            LET before == Status(extracted_data, id)
                after == Status(extracted_data', id)
            IN  \/ after = before
                \/ before = "unconfirmed" /\ after = "confirmed"
                \/ before \in {"unconfirmed", "confirmed"} /\ after = "deleted"]_vars

\* C10 amended: a call deletes the records ticked for deletion, sets every
\* other reviewed record to confirmed or unconfirmed as its flag says
\* (so confirmed -> unconfirmed happens too), and brings no record back.
C10_TransitionsFollowInputs ==
    [][IsApply =>
        /\ RecordIds(extracted_data') \subseteq RecordIds(extracted_data)
        /\ \A i \in 1..Len(Items) :
              LET id == ReviewSourceFiles(extracted_data[Items[i].data_idx + 1])
              IN  Status(extracted_data', id)
                    = IF (i - 1) \in delete_checks THEN "deleted"
                      ELSE IF confirmed_flags[i] THEN "confirmed"
                      ELSE "unconfirmed"]_vars

\* C10 witness: after calls that deleted the first file's record, one
\* record is confirmed and another was reviewed and left unconfirmed.
C10_Witness ==
    /\ applied /\ phase = "idle" /\ ~raised
    /\ "f1" \notin all_images
    /\ \E k \in 1..Len(extracted_data) : Status(extracted_data, ReviewSourceFiles(extracted_data[k])) = "confirmed"
    /\ \E k \in 1..Len(extracted_data) :
          /\ "_confirmed" \in extracted_data[k].keys
          /\ ~extracted_data[k]._confirmed

----------------------------------------------------------------------------
(* calc_confidence *)

\* Line 369
Weight(col) == IF col \in SeqToSet(REQUIRED_FIELDS) THEN 2 ELSE 1

\* Lines 371-380 for one column: twice what the column earns (earned is a
\* multiple of 0.5) and whether the column is appended to low_fields.
ScoreField(rec, confidence_map, col) ==
    LET val == Strip(rec.f[col])
        ai_conf == ConfGet(confidence_map, col, IF val # <<>> THEN "high" ELSE "low")
    IN  IF val = <<>>
        THEN [earned2 |-> 0, low |-> TRUE]
        ELSE IF ai_conf = "low"
             THEN [earned2 |-> Weight(col), low |-> TRUE]
             ELSE [earned2 |-> 2 * Weight(col), low |-> FALSE]

\* Lines 364-380: the loop over the first k columns.
RECURSIVE ScoreLoop(_, _)
ScoreLoop(rec, k) ==
    IF k = 0 THEN [total_weight |-> 0, earned2 |-> 0, low_fields |-> <<>>]
    ELSE LET before == ScoreLoop(rec, k - 1)
             col == CSV_COLUMNS[k]
             r == ScoreField(rec, ConfOf(rec), col)
         IN  [total_weight |-> before.total_weight + Weight(col),
              earned2 |-> before.earned2 + r.earned2,
              low_fields |-> IF r.low THEN Append(before.low_fields, col)
                                      ELSE before.low_fields]

\* Line 384 and line 396: some required column is in low_fields.
RequiredInLow(low_fields) ==
    \E i \in 1..Len(REQUIRED_FIELDS) : REQUIRED_FIELDS[i] \in SeqToSet(low_fields)

\* int(earned / total_weight * 100): earned / total_weight * 100 is an
\* integer only where earned / total_weight is 0, 1/4, 1/2, 3/4 or 1, which
\* floats hold exactly, so int() of the float is the floor of the quotient.
\* The labels "CHECK" and "CHECK_LOW" stand for the two Japanese labels.
calc_confidence(rec) ==
    LET s == ScoreLoop(rec, Len(CSV_COLUMNS))
        pct == IF s.total_weight # 0
               THEN (s.earned2 * 100) \div (2 * s.total_weight)
               ELSE 0
        label == IF pct >= 90 /\ ~RequiredInLow(s.low_fields) THEN "OK"
                 ELSE IF pct >= 60 THEN "CHECK"
                 ELSE "CHECK_LOW"
    IN  [pct |-> pct, label |-> label, low_fields |-> s.low_fields]

----------------------------------------------------------------------------
(* Scoring of raw and merged records *)

ScoreLabels == {"high", "low", "mid", Absent}

\* Extraction results that differ in the surname and birth columns and in
\* the confidence entries of the two; the last ones carry no confidence
\* object at all.
ScorePool ==
    { [Extracted(Fields(sei, H, birth, <<"1">>),
                 [AllHigh EXCEPT !["sei"] = ls, !["birth"] = lb], TRUE, "jukyusha")
         EXCEPT !._source_file = "f1"] :
        sei \in {E, Y}, birth \in {E, <<"d">>, <<"d", "d">>},
        ls \in ScoreLabels, lb \in ScoreLabels }
    \cup
    { [Extracted(Fields(sei, H, birth, <<"1">>), AllAbsent, FALSE, "keiyaku")
         EXCEPT !._source_file = "f2"] :
        sei \in {E, Y}, birth \in {E, <<"d">>, <<"d", "d">>} }

InitSC ==
    /\ data \in ScorePool
    /\ existing = SeedGroup(data)
    /\ merges = 0
    /\ InitMergeIdle
    /\ extracted_data = <<>>
    /\ all_images = {}
    /\ InitReview
    /\ InitScoreIdle
    /\ InitExtractIdle

\* Line 932 on a record that merge_records returned as it came in.
ScoreData ==
    /\ scored' = "data"
    /\ score' = calc_confidence(data)
    /\ UNCHANGED <<mergeVars, mergeIntoVars, sessionVars, reviewVars, extractVars>>

\* Lines 470 and 484, then line 932 on the merged record.
MergeAndScore ==
    /\ merges < MaxScoreMerges
    /\ \E d \in ScorePool :
          /\ existing' = _merge_into(existing, d)
          /\ data' = d
    /\ merges' = merges + 1
    /\ scored' = "existing"
    /\ score' = calc_confidence(existing')
    /\ UNCHANGED <<mergeVars, sessionVars, reviewVars, extractVars>>

NextSC == ScoreData \/ MergeAndScore

SpecScore == InitSC /\ [][NextSC]_vars

----------------------------------------------------------------------------
(* Claims about calc_confidence, under SpecScore *)

ScoredRecord == IF scored = "data" THEN data ELSE existing

\* The confidence of a column as the record definition reads it: the entry
\* of the mapping, and for an absent entry high if the value is non-empty,
\* low if it is empty.
ConfidenceOf(rec, col) ==
    ConfGet(ConfOf(rec), col, IF Strip(rec.f[col]) # <<>> THEN "high" ELSE "low")

\* C11: for every scored record 0 <= pct <= 100, and pct = 100 if and only
\* if every column is non-empty and the confidence of every column is high.
C11_PctRangeAndFullScore ==
    scored # "none" =>
        /\ 0 <= score.pct /\ score.pct <= 100
        /\ score.pct = 100 <=>
              \A c \in Cols : /\ Strip(ScoredRecord.f[c]) # <<>>
                              /\ ConfidenceOf(ScoredRecord, c) = "high"

\* The record with every label that is neither high nor low replaced by low.
UnknownAsLow(rec) ==
    [rec EXCEPT !.confidence =
        [c \in Cols |-> IF @[c] \in {"high", "low", Absent} THEN @[c] ELSE "low"]]

\* C12: a label that is present but neither high nor low counts as low: the
\* record scores as it does with the label replaced by low, and a non-empty
\* column with such a label is in low_fields.
C12_UnknownLabelScoresAsLow ==
    scored # "none" =>
        /\ score = calc_confidence(UnknownAsLow(ScoredRecord))
        /\ \A c \in Cols :
              (/\ Strip(ScoredRecord.f[c]) # <<>>
               /\ ConfOf(ScoredRecord)[c] \notin {"high", "low", Absent})
              => c \in SeqToSet(score.low_fields)

\* C13: when a merge adopts a non-empty incoming value whose record holds
\* no confidence entry for the column (the existing value was empty), the
\* merged record scores the column as high-confidence, as the incoming
\* record does when it is scored on its own: the column is not in
\* low_fields.
C13_AdoptedAbsentEntryScoresHigh ==
    [][(merges' = merges + 1 /\ scored' = "existing") =>
          \A c \in Cols :
              (/\ Strip(existing.f[c]) = <<>>
               /\ Strip(data'.f[c]) # <<>>
               /\ ConfOf(data')[c] = Absent)
              => /\ c \notin SeqToSet(calc_confidence(data').low_fields)
                 /\ c \notin SeqToSet(score'.low_fields)]_vars

----------------------------------------------------------------------------
(* Claims about the two stages of merge_records, under Spec *)

\* The groups, at this point of the pass, that list the file of input i.
GroupsHolding(i) ==
    {g \in 1..Len(groups) :
        SourceFileOf(data_list[i]) \in SeqToSet(groups[g].rec._source_files)}

HasCert(d) == Strip(d.f["cert"]) # <<>>

\* C14: at every point of the pass, an input record that has a primary key
\* is in no name-matching list and in no group but the one of its key;
\* hence no returned record lists the files of two input records whose
\* certificate numbers are non-empty and differ.
C14_KeyedRecordStaysInItsGroup ==
    /\ \A i \in 1..Len(data_list) :
          _match_key(data_list[i]) # NoneKey =>
              /\ data_list[i] \notin SeqToSet(unmatched)
              /\ data_list[i] \notin SeqToSet(still_unmatched)
              /\ \A g \in GroupsHolding(i) : groups[g].key = _match_key(data_list[i])
    /\ pc = "done" =>
          \A i, j \in 1..Len(data_list) :
              (/\ HasCert(data_list[i]) /\ HasCert(data_list[j])
               /\ Strip(data_list[i].f["cert"]) # Strip(data_list[j].f["cert"]))
              => HoldersOf(SourceFileOf(data_list[i]))
                     \cap HoldersOf(SourceFileOf(data_list[j])) = {}

\* C14 witness: two records of the same name with different certificate
\* numbers were returned as two records, and a third record of that name
\* without a primary key was merged into the second of them.
C14_Witness ==
    /\ pc = "done"
    /\ Len(data_list) = 3
    /\ HasCert(data_list[1]) /\ HasCert(data_list[2])
    /\ Strip(data_list[1].f["cert"]) # Strip(data_list[2].f["cert"])
    /\ _name_key(data_list[1]) = _name_key(data_list[2])
    /\ _name_key(data_list[3]) = _name_key(data_list[1])
    /\ _match_key(data_list[3]) = NoneKey
    /\ Len(extracted_data) = 2
    /\ extracted_data[1]._source_files = <<"f1">>
    /\ extracted_data[2]._source_files = <<"f2", "f3">>

----------------------------------------------------------------------------
(* render_extraction_section: the parallel API calls *)

\* Line 661
MAX_PARALLEL == 3

\* What _prepare_file and extract_with_anthropic do with an upload: "ok" is
\* an extraction, "apifail" is None from the API call, "prepfail" is a PDF
\* that could not be converted (image_base64 is None).
UploadKinds == {"ok", "apifail", "prepfail"}

\* The uploads that can stand at position i: UploadedFile.name is not
\* unique within an upload, so the name is the position's own or the name
\* of the first upload.
UploadsAt(i) ==
    {[name |-> n, kind |-> k] : n \in {FileNames[i], FileNames[1]}, k \in UploadKinds}

\* The non-empty upload lists of at most n files.
RECURSIVE UploadLists(_)
UploadLists(n) ==
    IF n = 0 THEN {}
    ELSE LET shorter == UploadLists(n - 1)
         IN  shorter
             \cup (IF n = 1 THEN {<<u>> : u \in UploadsAt(1)}
                   ELSE {Append(l, u) : l \in {x \in shorter : Len(x) = n - 1},
                                        u \in UploadsAt(n)})

\* What the model extracts from the image of the upload at each position.
ApiResponses ==
    << Extracted(Fields(Y, H, <<"d">>, <<"1">>), AllHigh, TRUE, "jukyusha"),
       Extracted(Fields(Y, H, E, E), AllLow, TRUE, "keiyaku"),
       Extracted(Fields(Z, H, <<"e">>, <<"2">>), AllHigh, TRUE, "jukyusha"),
       Extracted(Fields(Z, H, E, E), AllAbsent, FALSE, "keiyaku"),
       Extracted(Fields(Y, H, <<"d">>, E), AllHigh, TRUE, "fumei"),
       Extracted(Fields(Z, H, <<"e">>, E), AllLow, TRUE, "keiyaku") >>

\* Lines 690-692: the positions of the uploads that were prepared, in order.
RECURSIVE ApiTasksUpTo(_, _)
ApiTasksUpTo(ups, k) ==
    IF k = 0 THEN <<>>
    ELSE IF ups[k].kind # "prepfail"
         THEN Append(ApiTasksUpTo(ups, k - 1), k)
         ELSE ApiTasksUpTo(ups, k - 1)

ApiTasks == ApiTasksUpTo(uploaded_files, Len(uploaded_files))

\* api_results[fname] = v; v is the position of the upload whose extraction
\* is stored, 0 for None.
DictSet(d, fname, v) ==
    [n \in DOMAIN d \cup {fname} |-> IF n = fname THEN v ELSE d[n]]

\* Line 723: the value _call_api returned for the upload at position t.
CallApi(t) == IF uploaded_files[t].kind = "ok" THEN t ELSE 0

\* Lines 727-729: the uploads that were not prepared get None, unless their
\* name is in api_results.
RECURSIVE FillPrepFailed(_, _, _)
FillPrepFailed(d, ups, k) ==
    IF k = 0 THEN d
    ELSE LET before == FillPrepFailed(d, ups, k - 1)
         IN  IF ups[k].kind = "prepfail" /\ ups[k].name \notin DOMAIN before
             THEN DictSet(before, ups[k].name, 0)
             ELSE before

\* api_results.get(fname)
ResultGet(d, fname) == IF fname \in DOMAIN d THEN d[fname] ELSE 0

\* Lines 738-750: the record appended for one upload.
AssembleOne(d, up) ==
    LET extracted == ResultGet(d, up.name)
    IN  IF extracted # 0
        THEN [ApiResponses[extracted] EXCEPT !._source_file = up.name]
        ELSE [EmptyRecord EXCEPT !._source_file = up.name]

\* Lines 735-750: results, in the order of prepared.
AssembleAll(d, ups) == [i \in 1..Len(ups) |-> AssembleOne(d, ups[i])]

InitEX ==
    /\ uploaded_files \in UploadLists(MaxUploads)
    /\ next_task = 1
    /\ running = {}
    /\ done_futures = {}
    /\ api_results = NoResults
    /\ results = <<>>
    /\ xpc = "call"
    /\ InitMergeIdle
    /\ InitMergeInto
    /\ extracted_data = <<>>
    /\ all_images = {}
    /\ InitReview
    /\ InitScoreIdle

\* A worker of the pool takes the next submitted task (lines 717-720).
WorkerStart ==
    /\ xpc = "call"
    /\ next_task <= Len(ApiTasks)
    /\ Cardinality(running) < MAX_PARALLEL
    /\ running' = running \cup {ApiTasks[next_task]}
    /\ next_task' = next_task + 1
    /\ UNCHANGED <<uploaded_files, done_futures, api_results, results, xpc>>
    /\ UNCHANGED <<mergeVars, mergeIntoVars, sessionVars, reviewVars, scoreVars>>

\* A running _call_api returns (lines 655-658).
WorkerFinish ==
    /\ xpc = "call"
    /\ \E t \in running :
          /\ running' = running \ {t}
          /\ done_futures' = done_futures \cup {t}
    /\ UNCHANGED <<uploaded_files, next_task, api_results, results, xpc>>
    /\ UNCHANGED <<mergeVars, mergeIntoVars, sessionVars, reviewVars, scoreVars>>

\* as_completed yields a finished future (lines 722-725).
AsCompleted ==
    /\ xpc = "call"
    /\ \E t \in done_futures :
          /\ api_results' = DictSet(api_results, uploaded_files[t].name, CallApi(t))
          /\ done_futures' = done_futures \ {t}
    /\ UNCHANGED <<uploaded_files, next_task, running, results, xpc>>
    /\ UNCHANGED <<mergeVars, mergeIntoVars, sessionVars, reviewVars, scoreVars>>

\* Lines 727-762, once every future has been yielded.
Assemble ==
    /\ xpc = "call"
    /\ next_task > Len(ApiTasks)
    /\ running = {}
    /\ done_futures = {}
    /\ api_results' = FillPrepFailed(api_results, uploaded_files, Len(uploaded_files))
    /\ results' = AssembleAll(api_results', uploaded_files)
    /\ extracted_data' = merge_records(results')
    /\ all_images' = {uploaded_files[i].name : i \in 1..Len(uploaded_files)}
    /\ xpc' = "done"
    /\ UNCHANGED <<uploaded_files, next_task, running, done_futures>>
    /\ UNCHANGED <<mergeVars, mergeIntoVars, reviewVars, scoreVars>>

NextEX == WorkerStart \/ WorkerFinish \/ AsCompleted \/ Assemble

SpecExtract == InitEX /\ [][NextEX]_vars

----------------------------------------------------------------------------
(* Claims about the extraction step, under SpecExtract *)

\* The raw record of the upload at position i: what the API call on its own
\* image returned, or the empty record, under its own file name.
RecordOfUpload(i) ==
    IF uploaded_files[i].kind = "ok"
    THEN [ApiResponses[i] EXCEPT !._source_file = uploaded_files[i].name]
    ELSE [EmptyRecord EXCEPT !._source_file = uploaded_files[i].name]

\* C15: the list handed to merge_records has one raw record per uploaded
\* file, in upload order, and the record at position i is the one of the
\* upload at position i whatever the order in which the calls completed.
C15_ResultsInUploadOrder ==
    xpc = "done" =>
        /\ Len(results) = Len(uploaded_files)
        /\ \A i \in 1..Len(results) : results[i] = RecordOfUpload(i)

----------------------------------------------------------------------------
(* Claims about the provenance lists during the merge pass, under Spec *)

NoDuplicates(seq) == \A i, j \in 1..Len(seq) : i # j => seq[i] # seq[j]

IsPrefix(a, b) == Len(a) <= Len(b) /\ SubSeq(b, 1, Len(a)) = a

ProvenanceOk(rec) ==
    /\ {"_source_files", "_source_types"} \subseteq rec.keys
    /\ Len(rec._source_files) = Len(rec._source_types)
    /\ rec._source_files # <<>>
    /\ NoDuplicates(rec._source_files)

\* C16: at every point of the merge pass every group has as many source
\* files as source types, at least one source file and no source file
\* twice; and a step of the pass only appends to the source files of a
\* group.
C16_ProvenanceListsWellFormed ==
    /\ [](\A g \in 1..Len(groups) : ProvenanceOk(groups[g].rec))
    /\ [][\A g \in 1..Len(groups) :
             /\ g <= Len(groups')
             /\ groups'[g].key = groups[g].key
             /\ IsPrefix(groups[g].rec._source_files, groups'[g].rec._source_files)]_vars

\* C16 witness: a group that was seeded, took in a record of its key in the
\* first loop and a record of its name in the second.
C16_Witness ==
    /\ pc = "done"
    /\ Len(unmatched) = 1
    /\ still_unmatched = <<>>
    /\ Len(groups) = 1
    /\ groups[1].rec._source_files = <<"f1", "f3", "f2">>
    /\ Len(groups[1].rec._source_types) = 3

----------------------------------------------------------------------------
(* Claims about the per-field policy of _merge_into, under SpecMergeInto *)

\* The per-field policy for one column, on values as _merge_into reads them
\* (trimmed): what the merge of `incoming` into `before` must leave in
\* `after`.
FollowsPolicy(before, incoming, after, c) ==
    LET old == Strip(before.f[c])
        new == Strip(incoming.f[c])
        old_label == before.confidence[c]
        new_label == incoming.confidence[c]
        adopted == after.f[c] = new
        unchanged == after.f[c] = before.f[c] /\ after.confidence[c] = old_label
    IN  IF old = <<>> /\ new # <<>>
        THEN adopted /\ after.confidence[c] = new_label
        ELSE IF old # <<>> /\ new = <<>>
        THEN unchanged
        ELSE IF old # <<>> /\ new # <<>>
        THEN IF new_label = "high" /\ old_label = "low"
             THEN adopted /\ after.confidence[c] = "high"
             ELSE IF new_label = old_label /\ Len(new) > Len(old)
                  THEN adopted /\ after.confidence[c] = old_label
                  ELSE unchanged
        ELSE unchanged

HighOrLow(rec, c) == "confidence" \in rec.keys /\ rec.confidence[c] \in {"high", "low"}

\* C17: every _merge_into call leaves, in every column whose existing and
\* incoming labels are high or low, what the per-field policy says (empty
\* existing and non-empty incoming: incoming value and label; non-empty
\* existing and empty incoming: unchanged; both non-empty: incoming high
\* over existing low adopts the value with label high, else equal labels
\* and a strictly longer incoming value adopts the value only, else
\* unchanged); and no column that was non-empty before the call is empty
\* after it.
C17_MergeFollowsFieldPolicy ==
    [][merges' = merges + 1 =>
          \A c \in Cols :
              /\ (HighOrLow(existing, c) /\ HighOrLow(data', c))
                    => FollowsPolicy(existing, data', existing', c)
              /\ Strip(existing.f[c]) # <<>> => Strip(existing'.f[c]) # <<>>]_vars

\* C17 witness: after two merges the group holds the birth value of the
\* record merged last, trimmed, with the label high on both sides, and
\* lists both files.
C17_Witness ==
    /\ merges = 2
    /\ existing._source_files = <<"f2", "f1">>
    /\ SourceFileOf(data) = "f1"
    /\ HighOrLow(data, "birth")
    /\ data.f["birth"] = <<"e", " ">>
    /\ data.confidence["birth"] = "high"
    /\ existing.f["birth"] = <<"e">>
    /\ existing.confidence["birth"] = "high"

----------------------------------------------------------------------------
(* Claims about the second stage of merge_records, under Spec *)

\* The groups as the first loop left them.
Stage1Groups == Stage1Loop(data_list, Len(data_list)).groups

\* The stage-1 groups whose name key is nk, by position (creation order).
GroupsNamed(nk) ==
    {g \in 1..Len(Stage1Groups) : _name_key(Stage1Groups[g].rec) = nk}

\* The groups, at this point of the pass, that list file fn.
GroupsListing(fn) ==
    {g \in 1..Len(groups) : fn \in SeqToSet(groups[g].rec._source_files)}

\* The unmatched records the second loop has dealt with.
Stage2Done == IF pc = "stage2" THEN 1..(idx - 1)
              ELSE IF pc = "done" THEN 1..Len(unmatched) ELSE {}

\* C18: an unmatched record whose name key is the name key of some stage-1
\* group is, once the second loop has dealt with it, listed in exactly one
\* group, the last created of the stage-1 groups with that name key, and is
\* not returned as a record of its own.
C18_NameMatchGoesToLatestGroup ==
    \A k \in Stage2Done :
        LET u == unmatched[k]
            named == GroupsNamed(_name_key(u))
        IN  (_name_key(u) # NoneKey /\ named # {}) =>
                /\ GroupsListing(SourceFileOf(u)) = {SetMax(named)}
                /\ u \notin SeqToSet(still_unmatched)
                /\ pc = "done" => u \notin SeqToSet(extracted_data)

\* C18 witness: the record uploaded first has no primary key, two groups of
\* its name with different certificate numbers were created after it, and
\* it was merged into the second of them.
C18_Witness ==
    /\ pc = "done"
    /\ Len(data_list) = 3
    /\ unmatched = <<data_list[1]>>
    /\ Cardinality(GroupsNamed(_name_key(data_list[1]))) = 2
    /\ Len(extracted_data) = 2
    /\ extracted_data[1]._source_files = <<"f2">>
    /\ extracted_data[2]._source_files = <<"f3", "f1">>

\* Input positions of the records without a primary key whose name key is
\* set and is the name key of no stage-1 group.
NamedButGroupless ==
    {i \in 1..Len(data_list) :
        /\ _match_key(data_list[i]) = NoneKey
        /\ _name_key(data_list[i]) # NoneKey
        /\ GroupsNamed(_name_key(data_list[i])) = {}}

\* Positions of the returned records that are input record i as it came in.
ReturnedAsIs(i) == {j \in 1..Len(extracted_data) : extracted_data[j] = data_list[i]}

\* C19: the reverse index is built once, over the groups of the first loop,
\* and the second loop creates no group; so records without a primary key
\* that share a name key which no stage-1 group has are listed in no group
\* and each is returned as a record of its own, at a position of its own.
C19_UnmatchedNeverMergeWithEachOther ==
    /\ [][pc = "stage2" =>
             /\ name_to_group = NameIndex(Stage1Groups, Len(Stage1Groups))
             /\ pc' = "stage2" => name_to_group' = name_to_group
             /\ Len(groups') = Len(groups)]_vars
    /\ [](pc = "done" =>
             \A i, j \in NamedButGroupless :
                 (i # j /\ _name_key(data_list[i]) = _name_key(data_list[j])) =>
                     /\ GroupsListing(SourceFileOf(data_list[i])) = {}
                     /\ Cardinality(ReturnedAsIs(i)) = 1
                     /\ Cardinality(ReturnedAsIs(j)) = 1
                     /\ ReturnedAsIs(i) \cap ReturnedAsIs(j) = {}
                     /\ Len(extracted_data) = Len(groups) + Len(still_unmatched))

\* C19 witness: the first and the third of three records have no primary
\* key and the same name, the second made a group of another name, and the
\* pass returned the group and then the two records as they came in.
C19_Witness ==
    /\ pc = "done"
    /\ Len(data_list) = 3
    /\ NamedButGroupless = {1, 3}
    /\ _name_key(data_list[1]) = _name_key(data_list[3])
    /\ Len(groups) = 1
    /\ extracted_data = <<groups[1].rec, data_list[1], data_list[3]>>

====
